---- MODULE Spec2Model ----
(***************************************************************************)
(* chart_script.py: the layered architecture diagram.  The script reverses *)
(* the layer list, then emits separator lines, one row of rectangles and   *)
(* hover entries per layer, the hover trace, the component texts, the      *)
(* layer labels, the flow arrows, the axis ranges and the caption, and     *)
(* writes the image.                                                       *)
(*                                                                         *)
(* Lengths are exact decimals counted in hundredths: 1.2 is 120, 0.3 is 30,*)
(* -9 is -900.  Every halving the script performs is of an even number of  *)
(* hundredths, so \div 2 is exact.  Python evaluates the same expressions  *)
(* in IEEE-754 doubles and differs from these values only by rounding      *)
(* (at most about 1e-14 here).                                             *)
(***************************************************************************)
EXTENDS Integers, Sequences, FiniteSets, TLC

VARIABLES data, layers, total_layers, shapes, hover_data, traces,
          annotations, layout, image, layer_idx, comp_idx, item_idx, pc

vars == <<data, layers, total_layers, shapes, hover_data, traces,
          annotations, layout, image, layer_idx, comp_idx, item_idx, pc>>

\* ------------------------------------------------------------ constants

layer_height == 120
component_width == 220
component_height == 80
layer_gap == 80

\* The literal ' Layer' of lines 121, 131 and 154, as a sequence of characters.
LayerSuffix == <<" ", "L", "a", "y", "e", "r">>

\* ------------------------------------------------------------ bounds

MaxLayers == 3
MaxComponents == 9
MaxTotal == 15

\* ------------------------------------------------------------ inputs

\* A component: three opaque strings, here made distinct per position so
\* that every derived record can be traced to the component it came from.
Component(l, j) ==
    [name        |-> <<"name", l, j>>,
     description |-> <<"description", l, j>>,
     color       |-> <<"color", l, j>>]

Layer(l, nm, k) ==
    [name |-> nm, components |-> [j \in 1..k |-> Component(l, j)]]

\* Names shaped like the script's own ("Frontend Layer", ...): "A Layer", ...
DefaultName(l) == SubSeq(<<"A", "B", "C", "D", "E", "F">>, l, l) \o LayerSuffix

Pieces == {<<"D", "B">>, LayerSuffix, <<"s">>}

\* "", "DB", " Layer", "s", "DB Layer", " LayerDB", " Layer Layer", "DBs", ...
LayerNames == {a \o b : a \in Pieces \cup {<<>>}, b \in Pieces \cup {<<>>}}

RECURSIVE Sum(_)
Sum(s) == IF s = <<>> THEN 0 ELSE Head(s) + Sum(Tail(s))

\* Up to MaxLayers layers of up to MaxComponents components each, MaxTotal
\* components in all.
CountSeqs ==
    {c \in UNION {[1..n -> 1..MaxComponents] : n \in 1..MaxLayers} :
        Sum(c) <= MaxTotal}

\* Every shape of diagram up to the bounds, with names like the script's.
GeometryDiagrams ==
    {[l \in 1..Len(c) |-> Layer(l, DefaultName(l), c[l])] : c \in CountSeqs}

\* Small diagrams whose layer names range over LayerNames.
NamedDiagrams ==
    {<<Layer(1, a, 1)>> : a \in LayerNames}
    \cup {<<Layer(1, a, 2), Layer(2, b, 1)>> : a \in LayerNames, b \in LayerNames}

\* The diagram the script itself draws: its six layer names and its
\* component counts.
ScriptNames ==
    <<<<"F", "r", "o", "n", "t", "e", "n", "d">> \o LayerSuffix,
      <<"A", "P", "I", " ", "G", "a", "t", "e", "w", "a", "y">> \o LayerSuffix,
      <<"M", "i", "c", "r", "o", "s", "e", "r", "v", "i", "c", "e", "s">> \o LayerSuffix,
      <<"M", "e", "s", "s", "a", "g", "e", " ", "Q", "u", "e", "u", "e">> \o LayerSuffix,
      <<"D", "a", "t", "a", "b", "a", "s", "e">> \o LayerSuffix,
      <<"E", "x", "t", "e", "r", "n", "a", "l", " ", "I", "n", "t", "e", "g", "r", "a", "t", "i", "o", "n">> \o LayerSuffix>>

ScriptCounts == <<3, 2, 7, 2, 4, 4>>

ScriptDiagram ==
    [l \in 1..Len(ScriptCounts) |-> Layer(l, ScriptNames[l], ScriptCounts[l])]

Diagrams == GeometryDiagrams \cup NamedDiagrams \cup {ScriptDiagram}

\* ------------------------------------------------------------ helpers

\* The reversal forgotten: the list is kept in input order.
Reverse_Mut(s) == s

Reverse(s) == [i \in 1..Len(s) |-> s[Len(s) + 1 - i]]

IsPrefix(p, s) == Len(p) <= Len(s) /\ SubSeq(s, 1, Len(p)) = p

\* str.replace(old, new) for a non-empty old: occurrences are taken from the
\* left, do not overlap, and the result is not scanned again.
RECURSIVE Replace(_, _, _)
Replace(s, old, new) ==
    IF s = <<>> THEN <<>>
    ELSE IF IsPrefix(old, s)
         THEN new \o Replace(SubSeq(s, Len(old) + 1, Len(s)), old, new)
         ELSE <<Head(s)>> \o Replace(Tail(s), old, new)

\* The suffix is not stripped before the template appends it again.
LayerText_Mut(name) == name

LayerText(name) == Replace(name, LayerSuffix, <<>>)

\* Off by one: the "- 1" is missing.
RowY_Mut(total, idx) == (total - idx) * (layer_height + layer_gap)

RowY(total, idx) == (total - idx - 1) * (layer_height + layer_gap)

\* The half gap is added, not subtracted.
SeparatorY_Mut(total, idx) ==
    (total - idx) * (layer_height + layer_gap) + layer_gap \div 2

SeparatorY(total, idx) ==
    (total - idx) * (layer_height + layer_gap) - layer_gap \div 2

\* One gap per component, not one per adjacent pair.
TotalWidth_Mut(num_components) ==
    num_components * component_width + num_components * 30

TotalWidth(num_components) ==
    num_components * component_width + (num_components - 1) * 30

StartX(num_components) == (0 - TotalWidth(num_components)) \div 2

\* The step between components forgets the gap.
XPos_Mut(num_components, idx) ==
    StartX(num_components) + idx * component_width

XPos(num_components, idx) ==
    StartX(num_components) + idx * (component_width + 30)

Rect(x_pos, y_pos, component) ==
    [type |-> "rect", x0 |-> x_pos, y0 |-> y_pos,
     x1 |-> x_pos + component_width, y1 |-> y_pos + component_height,
     fillcolor |-> component.color]

HoverEntry(x_pos, y_pos, component, layer) ==
    [x |-> x_pos + component_width \div 2,
     y |-> y_pos + component_height \div 2,
     name |-> component.name,
     description |-> component.description,
     layer |-> LayerText(layer.name)]

\* What the hovertemplate shows for one point's customdata.
HoverTemplate(customdata) ==
    [title |-> customdata[1], body |-> customdata[2],
     layer |-> customdata[3] \o LayerSuffix]

ArrowStartY(total, idx) ==
    (total - idx - 1) * (layer_height + layer_gap) - 10

\* The end is computed from the upper row, not the lower one.
ArrowEndY_Mut(total, idx) ==
    (total - idx - 1) * (layer_height + layer_gap) + component_height + 10

ArrowEndY(total, idx) ==
    (total - idx - 2) * (layer_height + layer_gap) + component_height + 10

\* The middle arrow dropped.
ArrowOffsets_Mut == <<-200, 200>>

ArrowOffsets == <<-200, 0, 200>>

Arrow(x_offset, y_start, y_end) ==
    [x |-> x_offset, y |-> (y_start + y_end) \div 2,
     ax |-> x_offset, ay |-> y_start, showarrow |-> TRUE, text |-> ""]

\* Off by one: the caption is placed by the top row, not above it.
CaptionY_Mut(total) == (total - 1) * (layer_height + layer_gap) + 30

CaptionY(total) == total * (layer_height + layer_gap) + 30

CaptionText ==
    "Data Flow: Frontend -> API Gateway -> Microservices -> Databases/External Systems"

\* The label column moved to the left end of the separators.
LabelX_Mut == 0 - 800

LabelX == -900

\* ------------------------------------------------------------ the script

Init ==
    /\ data \in Diagrams
    /\ layers = <<>>
    /\ total_layers = 0
    /\ shapes = <<>>
    /\ hover_data = <<>>
    /\ traces = <<>>
    /\ annotations = <<>>
    /\ layout = [set |-> FALSE]
    /\ image = FALSE
    /\ layer_idx = 0
    /\ comp_idx = 0
    /\ item_idx = 0
    /\ pc = "reverse"

ReverseLayers ==
    /\ pc = "reverse"
    /\ layers' = Reverse(data)
    /\ total_layers' = Len(data)
    /\ layer_idx' = 1
    /\ pc' = "separators"
    /\ UNCHANGED <<data, shapes, hover_data, traces, annotations, layout,
                   image, item_idx, comp_idx>>

AddSeparatorLine ==
    /\ pc = "separators"
    /\ layer_idx < total_layers
    /\ LET y_line == SeparatorY(total_layers, layer_idx)
       IN shapes' = Append(shapes, [type |-> "line", x0 |-> -800, x1 |-> 800,
                                    y0 |-> y_line, y1 |-> y_line])
    /\ layer_idx' = layer_idx + 1
    /\ UNCHANGED <<data, layers, total_layers, hover_data, traces,
                   annotations, layout, image, item_idx, pc, comp_idx>>

EndSeparators ==
    /\ pc = "separators"
    /\ layer_idx >= total_layers
    /\ layer_idx' = 0
    /\ pc' = "components"
    /\ UNCHANGED <<data, layers, total_layers, shapes, hover_data, traces,
                   annotations, layout, image, item_idx, comp_idx>>

\* One pass of the inner loop: one component of the current layer.
AddComponent ==
    /\ pc = "components"
    /\ layer_idx < total_layers
    /\ LET layer == layers[layer_idx + 1]
           y_pos == RowY(total_layers, layer_idx)
           components == layer.components
           num_components == Len(components)
       IN /\ comp_idx < num_components
          /\ LET component == components[comp_idx + 1]
                 x_pos == XPos(num_components, comp_idx)
             IN /\ shapes' = Append(shapes, Rect(x_pos, y_pos, component))
                /\ hover_data' =
                      Append(hover_data,
                             HoverEntry(x_pos, y_pos, component, layer))
    /\ comp_idx' = comp_idx + 1
    /\ UNCHANGED <<data, layers, total_layers, traces, annotations, layout,
                   image, layer_idx, item_idx, pc>>

\* The inner loop is exhausted: on to the next layer.
NextLayer ==
    /\ pc = "components"
    /\ layer_idx < total_layers
    /\ comp_idx >= Len(layers[layer_idx + 1].components)
    /\ layer_idx' = layer_idx + 1
    /\ comp_idx' = 0
    /\ UNCHANGED <<data, layers, total_layers, shapes, hover_data, traces,
                   annotations, layout, image, item_idx, pc>>

EndComponents ==
    /\ pc = "components"
    /\ layer_idx >= total_layers
    /\ pc' = "hover_trace"
    /\ UNCHANGED <<data, layers, total_layers, shapes, hover_data, traces,
                   annotations, layout, image, layer_idx, comp_idx, item_idx>>

AddHoverTrace ==
    /\ pc = "hover_trace"
    /\ LET customdata == [i \in 1..Len(hover_data) |->
                            <<hover_data[i].name, hover_data[i].description,
                              hover_data[i].layer>>]
       IN traces' = Append(traces,
            [x |-> [i \in 1..Len(hover_data) |-> hover_data[i].x],
             y |-> [i \in 1..Len(hover_data) |-> hover_data[i].y],
             customdata |-> customdata,
             hover |-> [i \in 1..Len(hover_data) |->
                          HoverTemplate(customdata[i])]])
    /\ item_idx' = 0
    /\ pc' = "component_text"
    /\ UNCHANGED <<data, layers, total_layers, shapes, hover_data,
                   annotations, layout, image, layer_idx, comp_idx>>

AddComponentText ==
    /\ pc = "component_text"
    /\ item_idx < Len(hover_data)
    /\ LET item == hover_data[item_idx + 1]
       IN annotations' = Append(annotations,
            [x |-> item.x, y |-> item.y, text |-> <<"<b>", item.name, "</b>">>,
             showarrow |-> FALSE, textangle |-> 0])
    /\ item_idx' = item_idx + 1
    /\ UNCHANGED <<data, layers, total_layers, shapes, hover_data, traces,
                   layout, image, layer_idx, pc, comp_idx>>

EndComponentText ==
    /\ pc = "component_text"
    /\ item_idx >= Len(hover_data)
    /\ layer_idx' = 0
    /\ pc' = "layer_labels"
    /\ UNCHANGED <<data, layers, total_layers, shapes, hover_data, traces,
                   annotations, layout, image, item_idx, comp_idx>>

AddLayerLabel ==
    /\ pc = "layer_labels"
    /\ layer_idx < total_layers
    /\ LET layer == layers[layer_idx + 1]
           y_pos == RowY(total_layers, layer_idx)
       IN annotations' = Append(annotations,
            [x |-> LabelX, y |-> y_pos + component_height \div 2,
             text |-> <<"<b>", LayerText(layer.name), "</b>">>,
             showarrow |-> FALSE, textangle |-> -90])
    /\ layer_idx' = layer_idx + 1
    /\ UNCHANGED <<data, layers, total_layers, shapes, hover_data, traces,
                   layout, image, item_idx, pc, comp_idx>>

EndLayerLabels ==
    /\ pc = "layer_labels"
    /\ layer_idx >= total_layers
    /\ layer_idx' = 0
    /\ item_idx' = 0
    /\ pc' = "arrows"
    /\ UNCHANGED <<data, layers, total_layers, shapes, hover_data, traces,
                   annotations, layout, image, comp_idx>>

\* One pass of the inner loop: one arrow of the current layer boundary.
AddFlowArrow ==
    /\ pc = "arrows"
    /\ layer_idx < total_layers - 1
    /\ item_idx < Len(ArrowOffsets)
    /\ LET y_start == ArrowStartY(total_layers, layer_idx)
           y_end == ArrowEndY(total_layers, layer_idx)
           x_offset == ArrowOffsets[item_idx + 1]
       IN annotations' = Append(annotations, Arrow(x_offset, y_start, y_end))
    /\ item_idx' = item_idx + 1
    /\ UNCHANGED <<data, layers, total_layers, shapes, hover_data, traces,
                   layout, image, layer_idx, comp_idx, pc>>

NextBoundary ==
    /\ pc = "arrows"
    /\ layer_idx < total_layers - 1
    /\ item_idx >= Len(ArrowOffsets)
    /\ layer_idx' = layer_idx + 1
    /\ item_idx' = 0
    /\ UNCHANGED <<data, layers, total_layers, shapes, hover_data, traces,
                   annotations, layout, image, comp_idx, pc>>

EndFlowArrows ==
    /\ pc = "arrows"
    /\ layer_idx >= total_layers - 1
    /\ pc' = "layout"
    /\ UNCHANGED <<data, layers, total_layers, shapes, hover_data, traces,
                   annotations, layout, image, layer_idx, comp_idx, item_idx>>

UpdateLayout ==
    /\ pc = "layout"
    /\ layout' = [set |-> TRUE,
                  xrange |-> <<-1000, 1000>>,
                  yrange |-> <<-100,
                               total_layers * (layer_height + layer_gap) + 100>>]
    /\ pc' = "caption"
    /\ UNCHANGED <<data, layers, total_layers, shapes, hover_data, traces,
                   annotations, image, layer_idx, item_idx, comp_idx>>

AddCaption ==
    /\ pc = "caption"
    /\ annotations' = Append(annotations,
            [x |-> 0, y |-> CaptionY(total_layers),
             text |-> CaptionText, showarrow |-> FALSE, textangle |-> 0])
    /\ pc' = "write"
    /\ UNCHANGED <<data, layers, total_layers, shapes, hover_data, traces,
                   layout, image, layer_idx, item_idx, comp_idx>>

WriteImage ==
    /\ pc = "write"
    /\ image' = TRUE
    /\ pc' = "done"
    /\ UNCHANGED <<data, layers, total_layers, shapes, hover_data, traces,
                   annotations, layout, layer_idx, item_idx, comp_idx>>

Next ==
    \/ ReverseLayers
    \/ AddSeparatorLine
    \/ EndSeparators
    \/ AddComponent
    \/ NextLayer
    \/ EndComponents
    \/ AddHoverTrace
    \/ AddComponentText
    \/ EndComponentText
    \/ AddLayerLabel
    \/ EndLayerLabels
    \/ AddFlowArrow
    \/ NextBoundary
    \/ EndFlowArrows
    \/ UpdateLayout
    \/ AddCaption
    \/ WriteImage

Spec == Init /\ [][Next]_vars

\* ------------------------------------------------------------ observations

\* The diagram as the claims speak of it: n layers, layer l of the input has
\* Count(l) components and reversed index n - l (0 is the input-last layer),
\* and the row origin of reversed index i is Y(i).
n == Len(data)

Count(l) == Len(data[l].components)

RevIndex(l) == n - l

Y(i) == (n - i - 1) * (layer_height + layer_gap)

RectIdx == {k \in DOMAIN shapes : shapes[k].type = "rect"}

LineIdx == {k \in DOMAIN shapes : shapes[k].type = "line"}

Rects == {shapes[k] : k \in RectIdx}

\* The rectangles drawn for input layer l (a rectangle's fill is its
\* component's colour, which names the component).
RowRects(l) == {r \in Rects : r.fillcolor[2] = l}

RowComplete(l) == Cardinality(RowRects(l)) = Count(l)

EntryOf(l, j) ==
    hover_data[CHOOSE k \in DOMAIN hover_data :
                  hover_data[k].name = <<"name", l, j>>]

ArrowIdx == {k \in DOMAIN annotations : annotations[k].showarrow}

Arrows == {annotations[k] : k \in ArrowIdx}

LabelIdx ==
    {k \in DOMAIN annotations :
        ~annotations[k].showarrow /\ annotations[k].textangle = -90}

Labels == {annotations[k] : k \in LabelIdx}

\* ------------------------------------------------------------ claims

\* C1: one layout pass emits n component rows (one per layer), n-1
\* separator lines, n-1 arrow groups of exactly 3 arrows each (3*(n-1)
\* arrows), and exactly one hover entry per component: as many hover
\* entries as components in all, and as rectangles.
C1_Counts ==
    pc = "done" =>
        /\ Cardinality({r.y0 : r \in Rects}) = n
        /\ \A l \in 1..n : Cardinality({r.y0 : r \in RowRects(l)}) = 1
        /\ Cardinality(LineIdx) = n - 1
        /\ Cardinality({annotations[k].ay : k \in ArrowIdx}) = n - 1
        /\ \A k \in ArrowIdx :
              Cardinality({j \in ArrowIdx :
                              annotations[j].ay = annotations[k].ay}) = 3
        /\ Cardinality(ArrowIdx) = 3 * (n - 1)
        /\ \A l \in 1..n : \A j \in 1..Count(l) :
              Cardinality({k \in DOMAIN hover_data :
                              hover_data[k].name = <<"name", l, j>>}) = 1
        /\ Len(hover_data) = Sum([l \in 1..n |-> Count(l)])
        /\ Cardinality(RectIdx) = Len(hover_data)

C1_Witness ==
    pc = "done" /\ n = 3 /\ Count(1) = 2 /\ Count(2) = 1 /\ Count(3) = 4

\* C2: the layer at reversed index i (0 is the input-last layer) has row
\* origin (n - i - 1) * (layer_height + layer_gap); origins fall by exactly
\* 2.0 from one reversed index to the next, the input-last layer has the
\* largest y and the input-first layer is at y = 0.
C2_RowOrigins ==
    /\ pc # "reverse" => \A i \in 0..(n - 1) : layers[i + 1] = data[n - i]
    /\ \A r \in Rects :
          LET i == RevIndex(r.fillcolor[2])
          IN r.y0 = (n - i - 1) * (layer_height + layer_gap)
    /\ \A r, q \in Rects :
          RevIndex(q.fillcolor[2]) = RevIndex(r.fillcolor[2]) + 1
              => (q.y0 < r.y0 /\ r.y0 - q.y0 = 200)
    /\ \A r \in RowRects(n) : \A q \in Rects : q.y0 <= r.y0
    /\ \A r \in RowRects(1) : r.y0 = 0

C2_Witness ==
    /\ pc = "done" /\ n = 3
    /\ RowRects(1) # {} /\ RowRects(2) # {} /\ RowRects(3) # {}

\* C3 as claimed: with two layers or more, the input-last layer is drawn at
\* the bottom (smallest y) and the input-first layer at the top (largest y).
C3_Original ==
    (pc = "done" /\ n >= 2) =>
        /\ \A r \in RowRects(n) : \A q \in Rects \ RowRects(n) : r.y0 < q.y0
        /\ \A r \in RowRects(1) : \A q \in Rects \ RowRects(1) : r.y0 > q.y0

\* C3 as amended: with two layers or more, the input-last layer is drawn at
\* the top (largest y) and the input-first layer at the bottom (smallest y).
C3_Amended ==
    (pc = "done" /\ n >= 2) =>
        /\ \A r \in RowRects(n) : \A q \in Rects \ RowRects(n) : r.y0 > q.y0
        /\ \A r \in RowRects(1) : \A q \in Rects \ RowRects(1) : r.y0 < q.y0

C3_Witness ==
    pc = "done" /\ n >= 2 /\ RowRects(1) # {} /\ RowRects(n) # {}

C5_NoOverlap ==
    \A r, q \in Rects :
        r.fillcolor[2] = q.fillcolor[2] =>
            /\ q.fillcolor[3] = r.fillcolor[3] + 1
                  => (q.x0 - r.x1 = 30 /\ r.x1 <= q.x0)
            /\ r # q => (r.x1 <= q.x0 \/ q.x1 <= r.x0)

C5_Witness ==
    \E l \in 1..n : Count(l) >= 3 /\ RowComplete(l)

\* C6 as claimed: every arrow has its tail at y(i) - 0.1, just below the
\* upper row, and its head at y(i+1) + component_height + 0.1, just above
\* the lower row, at the same x in {-2, 0, 2}, head below tail; and every
\* boundary has such an arrow at each of the three offsets.
C6_Original ==
    /\ \A a \in Arrows :
          \E i \in 0..(n - 2) :
              /\ a.ay = Y(i) - 10
              /\ a.y = Y(i + 1) + component_height + 10
              /\ a.y < a.ay
              /\ a.x = a.ax /\ a.x \in {-200, 0, 200}
    /\ pc = "done" =>
          \A i \in 0..(n - 2) : \A x \in {-200, 0, 200} :
              \E a \in Arrows : a.x = x /\ a.ay = Y(i) - 10

\* C6 as amended: every arrow has its tail at y(i) - 0.1, 0.1 below the
\* bottom edge of the upper row, and its head at the midpoint of
\* y(i) - 0.1 and y(i+1) + component_height + 0.1, which is below the tail
\* and strictly above the point 0.1 above the lower row: the arrow spans
\* the upper half of the gap.  Tail and head share x in {-2, 0, 2}, and
\* every boundary has such an arrow at each of the three offsets.
C6_Amended ==
    /\ \A a \in Arrows :
          \E i \in 0..(n - 2) :
              /\ a.ay = Y(i) - 10
              /\ 2 * a.y = (Y(i) - 10) + (Y(i + 1) + component_height + 10)
              /\ a.y < a.ay
              /\ Y(i + 1) + component_height + 10 < a.y
              /\ a.x = a.ax /\ a.x \in {-200, 0, 200}
              /\ \A r \in RowRects(n - i) : a.ay = r.y0 - 10
              /\ \A q \in RowRects(n - i - 1) : q.y1 + 10 < a.y
    /\ pc = "done" =>
          \A i \in 0..(n - 2) : \A x \in {-200, 0, 200} :
              \E a \in Arrows : a.x = x /\ a.ay = Y(i) - 10

C6_Witness ==
    pc = "done" /\ n = 3 /\ Cardinality(Arrows) = 6

\* C7 as claimed: every layer has a label anchor at x = -9 and
\* y = y(i) + component_height/2, and the anchor is strictly left of every
\* rectangle of that layer, whatever the number of components.
C7_Original ==
    pc = "done" =>
        \A l \in 1..n :
            \E a \in Labels :
                /\ a.y = Y(RevIndex(l)) + component_height \div 2
                /\ a.x = -900
                /\ \A r \in RowRects(l) : a.x < r.x0

\* C7 as amended: there is one label anchor per layer, at x = -9 and
\* y = y(i) + component_height/2, and it is strictly left of every
\* rectangle of its layer exactly when the layer has at most 7 components
\* (with 8 or more the leftmost rectangle starts at or beyond -9.85).
C7_Amended ==
    pc = "done" =>
        /\ Cardinality(LabelIdx) = n
        /\ \A l \in 1..n :
              \E a \in Labels :
                  /\ a.y = Y(RevIndex(l)) + component_height \div 2
                  /\ a.x = -900
                  /\ (\A r \in RowRects(l) : a.x < r.x0) <=> Count(l) <= 7

C7_Witness ==
    pc = "done" /\ \E l \in 1..n : Count(l) = 7 /\ RowComplete(l)

\* The caption: the annotation added last.
Caption == annotations[Len(annotations)]

\* C8 as claimed: every rectangle lies inside the axis ranges x in
\* [-10, 10], y in [-1, n*(layer_height + layer_gap) + 1], whatever the
\* component counts, and the caption at y = n*(layer_height + layer_gap)
\* + 0.3 is above the top edge of the topmost row and inside the vertical
\* range.
C8_Original ==
    pc = "done" =>
        /\ layout.xrange = <<-1000, 1000>>
        /\ layout.yrange = <<-100, n * (layer_height + layer_gap) + 100>>
        /\ \A r \in Rects :
              /\ layout.xrange[1] <= r.x0 /\ r.x1 <= layout.xrange[2]
              /\ layout.yrange[1] <= r.y0 /\ r.y1 <= layout.yrange[2]
        /\ Caption.y = n * (layer_height + layer_gap) + 30
        /\ \A r \in Rects : r.y1 < Caption.y
        /\ layout.yrange[1] <= Caption.y /\ Caption.y <= layout.yrange[2]

\* C8 as amended: the axis ranges are x in [-10, 10] and y in
\* [-1, n*(layer_height + layer_gap) + 1]; every rectangle lies inside the
\* vertical range, and the rectangles of a layer all lie inside the
\* horizontal range exactly when the layer has at most 8 components (a row
\* of 9 is 22.2 wide); the caption at y = n*(layer_height + layer_gap)
\* + 0.3 is above the top edge of every row and inside the vertical range.
C8_Amended ==
    pc = "done" =>
        /\ layout.xrange = <<-1000, 1000>>
        /\ layout.yrange = <<-100, n * (layer_height + layer_gap) + 100>>
        /\ \A r \in Rects :
              layout.yrange[1] <= r.y0 /\ r.y1 <= layout.yrange[2]
        /\ \A l \in 1..n :
              (\A r \in RowRects(l) :
                  layout.xrange[1] <= r.x0 /\ r.x1 <= layout.xrange[2])
                  <=> Count(l) <= 8
        /\ Caption.y = n * (layer_height + layer_gap) + 30
        /\ \A r \in Rects : r.y1 < Caption.y
        /\ layout.yrange[1] <= Caption.y /\ Caption.y <= layout.yrange[2]

C8_Witness ==
    pc = "done" /\ n >= 2 /\ \E l \in 1..n : Count(l) = 8 /\ RowComplete(l)

\* C9: the separator of boundary b (1 .. n-1) runs from x = -8 to x = 8 at
\* y = (n - b)*(layer_height + layer_gap) - layer_gap/2, strictly between
\* the top edge of the row below (reversed index b) and the bottom edge of
\* the row above (reversed index b-1); each of the n-1 gaps holds exactly
\* one separator and no separator crosses the vertical extent of a
\* rectangle.
C9_Separators ==
    pc = "done" =>
        /\ Cardinality(LineIdx) = n - 1
        /\ \A b \in 1..(n - 1) :
              \E y_line \in {shapes[k].y0 : k \in LineIdx} :
                  /\ 2 * y_line = 2 * (n - b) * (layer_height + layer_gap)
                                  - layer_gap
                  /\ Cardinality({k \in LineIdx :
                        /\ shapes[k].y0 = y_line /\ shapes[k].y1 = y_line
                        /\ shapes[k].x0 = -800 /\ shapes[k].x1 = 800}) = 1
                  /\ \A lower \in RowRects(n - b) :
                        \A upper \in RowRects(n - b + 1) :
                            /\ lower.y1 < y_line /\ y_line < upper.y0
                            /\ Cardinality({k \in LineIdx :
                                  /\ lower.y1 < shapes[k].y0
                                  /\ shapes[k].y0 < upper.y0}) = 1
        /\ \A k \in LineIdx : \A r \in Rects :
              /\ shapes[k].y0 = shapes[k].y1
              /\ ~(r.y0 <= shapes[k].y0 /\ shapes[k].y0 <= r.y1)

C9_Witness ==
    pc = "done" /\ n = 3 /\ Cardinality(LineIdx) = 2

\* Where ' Layer' occurs in a name, and the name with every occurrence cut
\* out (occurrences of ' Layer' cannot overlap one another).
Occurrences(s) ==
    {i \in 1..(Len(s) - Len(LayerSuffix) + 1) :
        SubSeq(s, i, i + Len(LayerSuffix) - 1) = LayerSuffix}

Kept(s) ==
    SelectSeq([p \in 1..Len(s) |-> p],
              LAMBDA p : \A i \in Occurrences(s) :
                             p < i \/ p > i + Len(LayerSuffix) - 1)

WithoutSuffix(s) == [k \in 1..Len(Kept(s)) |-> s[Kept(s)[k]]]

\* The name ends in ' Layer' and holds no other ' Layer'.
EndsInOneSuffix(s) ==
    /\ Len(s) >= Len(LayerSuffix)
    /\ Occurrences(s) = {Len(s) - Len(LayerSuffix) + 1}

RectSeq == SelectSeq(shapes, LAMBDA s : s.type = "rect")

\* C10 as claimed: the hover entry of a component carries the component's
\* own name and description and, as its layer, the name of the layer that
\* holds it, and the layer text of its tooltip equals that layer's name.
C10_Original ==
    \A k \in DOMAIN hover_data :
        LET e == hover_data[k]
            l == RectSeq[k].fillcolor[2]
            j == RectSeq[k].fillcolor[3]
        IN /\ e.name = data[l].components[j].name
           /\ e.description = data[l].components[j].description
           /\ e.layer = data[l].name
           /\ traces # <<>> => traces[1].hover[k].layer = data[l].name

\* C10 as amended: the hover entry of a component carries the component's
\* own name and description and, as its layer, the name of the layer that
\* holds it with every ' Layer' removed; the tooltip shows that name and
\* description and, as layer text, the entry's layer followed by ' Layer',
\* which equals the layer's name exactly when the name ends in ' Layer'
\* and holds no other ' Layer'.
C10_Amended ==
    \A k \in DOMAIN hover_data :
        LET e == hover_data[k]
            l == RectSeq[k].fillcolor[2]
            j == RectSeq[k].fillcolor[3]
        IN /\ e.name = data[l].components[j].name
           /\ e.description = data[l].components[j].description
           /\ e.layer = WithoutSuffix(data[l].name)
           /\ traces # <<>> =>
                 LET tip == traces[1].hover[k]
                 IN /\ tip.title = e.name
                    /\ tip.body = e.description
                    /\ tip.layer = e.layer \o LayerSuffix
                    /\ tip.layer = data[l].name
                          <=> EndsInOneSuffix(data[l].name)

C10_Witness ==
    /\ traces # <<>>
    /\ n = 2
    /\ Occurrences(data[1].name) # {} /\ ~EndsInOneSuffix(data[1].name)
    /\ EndsInOneSuffix(data[2].name)
    /\ data[1].name # data[2].name

====
